---- MODULE Spec2Model ----
(***************************************************************************)
(* A model of scripts/build.ts of the ionicons asset pipeline: the Loader  *)
(* (getSvgs, camelize), the Optimizer (optimizeSvgs), the catalog builder  *)
(* (createDataJson), the package emitter (createIconPackage), the sprite   *)
(* builder, the cheatsheet builder and the test-fixture copier, with the   *)
(* file operations build() launches in parallel interleaved at their       *)
(* await points.                                                           *)
(*                                                                         *)
(* A JavaScript string is a sequence of one-character strings, so that     *)
(* split, toLowerCase, toUpperCase, endsWith and the < of the sort         *)
(* comparators are computed as the code computes them.                     *)
(***************************************************************************)
EXTENDS Integers, Sequences, FiniteSets, TLC

----------------------------------------------------------------------------
(* Characters, in UTF-16 code unit order.                                  *)

Lowers == <<"a","b","c","d","e","f","g","h","i","j","k","l","m",
            "n","o","p","q","r","s","t","u","v","w","x","y","z">>

Uppers == <<"A","B","C","D","E","F","G","H","I","J","K","L","M",
            "N","O","P","Q","R","S","T","U","V","W","X","Y","Z">>

Alphabet == <<"-", ".", "0", "1", "2">> \o Uppers \o <<"_">> \o Lowers

CharSet == {Alphabet[i] : i \in 1..Len(Alphabet)}

Code == [c \in CharSet |-> CHOOSE i \in 1..Len(Alphabet) : Alphabet[i] = c]

IndexIn(s, c) == CHOOSE i \in 1..Len(s) : s[i] = c

IsUpper(c) == \E i \in 1..Len(Uppers) : Uppers[i] = c

IsLower(c) == \E i \in 1..Len(Lowers) : Lowers[i] = c

toLowerCaseChar(c) == IF IsUpper(c) THEN Lowers[IndexIn(Uppers, c)] ELSE c

toUpperCaseChar(c) == IF IsLower(c) THEN Uppers[IndexIn(Lowers, c)] ELSE c

toLowerCase(s) == [i \in 1..Len(s) |-> toLowerCaseChar(s[i])]

\* a < b of two JavaScript strings
StrLess(a, b) ==
  \E i \in 1..Len(b) :
    /\ \A j \in 1..(i-1) : j <= Len(a) /\ a[j] = b[j]
    /\ \/ i = Len(a) + 1
       \/ i <= Len(a) /\ Code[a[i]] < Code[b[i]]

startsWith(s, p) == Len(s) >= Len(p) /\ SubSeq(s, 1, Len(p)) = p

endsWith(s, p) ==
  Len(s) >= Len(p) /\ SubSeq(s, Len(s) - Len(p) + 1, Len(s)) = p

\* s.split(sep) for a set seps of one-character separators
split(s, seps) ==
  LET F[i \in 0..Len(s)] ==
        IF i = 0 THEN << <<>> >>
        ELSE LET p == F[i-1]
             IN IF s[i] \in seps
                THEN Append(p, <<>>)
                ELSE [p EXCEPT ![Len(p)] = Append(@, s[i])]
  IN F[Len(s)]

RECURSIVE join(_)
join(words) == IF words = <<>> THEN <<>> ELSE Head(words) \o join(Tail(words))

\* Array.prototype.sort with a comparator that returns -1 when a's key < b's
\* key, 1 when it is greater and 0 otherwise: a stable sort. keys[i] is the
\* key of s[i]; the result is the order of the indices.
sortOrder(keys) ==
  LET F[i \in 0..Len(keys)] ==
        IF i = 0 THEN <<>>
        ELSE LET done == F[i-1]
                 k == IF \E j \in 1..Len(done) : StrLess(keys[i], keys[done[j]])
                      THEN CHOOSE j \in 1..Len(done) :
                             /\ StrLess(keys[i], keys[done[j]])
                             /\ \A h \in 1..(j-1) : ~StrLess(keys[i], keys[done[h]])
                      ELSE Len(done) + 1
             IN SubSeq(done, 1, k - 1) \o <<i>> \o SubSeq(done, k, Len(done))
  IN F[Len(keys)]

SortByKey(s, keys) == [i \in 1..Len(s) |-> s[sortOrder(keys)[i]]]

Range(s) == {s[i] : i \in 1..Len(s)}

----------------------------------------------------------------------------
(* camelize and upFirst.  A call either returns a string or throws the     *)
(* TypeError of reading a property of undefined.                           *)

Returned(v) == [ok |-> TRUE, val |-> v]

Thrown == [ok |-> FALSE, val |-> <<>>]

\* word[0] is undefined for the empty word, and undefined.toUpperCase()
\* throws
upFirst(word) ==
  IF word = <<>> THEN Thrown
  ELSE Returned(<<toUpperCaseChar(word[1])>> \o Tail(toLowerCase(word)))

camelize(text) ==
  LET words == split(text, {"-", "_"})
      rest  == [i \in 1..(Len(words) - 1) |-> upFirst(words[i + 1])]
  IN IF \E i \in 1..Len(rest) : ~rest[i].ok THEN Thrown
     ELSE Returned(toLowerCase(words[1])
                     \o join([i \in 1..Len(rest) |-> rest[i].val]))

----------------------------------------------------------------------------
(* The source directory: file names and the markup of each file.           *)

SvgExt == <<".", "s", "v", "g">>

F_a1 == <<"a", "1">> \o SvgExt

F_a_b == <<"a", "-", "b">> \o SvgExt

F_a_u_b == <<"a", "_", "b">> \o SvgExt

F_c == <<"c">> \o SvgExt

F_a__b == <<"a", "-", "-", "b">> \o SvgExt

F_a_dot_b == <<"a", ".", "b">> \o SvgExt

F_Ab == <<"A", "b">> \o SvgExt

F_hidden == <<".", "x">> \o SvgExt

F_txt == <<"b", ".", "t", "x", "t">>

FileNames ==
  {F_a1, F_a_b, F_a_u_b, F_c, F_a__b, F_a_dot_b, F_Ab, F_hidden, F_txt}

MaxFiles == 2

\* what readdir may return: the files of the directory in any order
RECURSIVE Listings(_)
Listings(n) ==
  IF n = 0 THEN {<<>>}
  ELSE LET shorter == Listings(n - 1)
       IN shorter \cup {Append(l, f) : l \in {k \in shorter : Len(k) = n - 1},
                                       f \in FileNames}

SourceDirs == {l \in Listings(MaxFiles) : \A i, j \in 1..Len(l) : i # j => l[i] # l[j]}

Attr(n, v) == [name |-> n, value |-> v]

Elem(t, as, cs) == [tag |-> t, attrs |-> as, class |-> cs]

Document(es) == [wellFormed |-> TRUE, elems |-> es]

Malformed == [wellFormed |-> FALSE, elems |-> <<>>]

SvgRoot == Elem("svg", <<Attr("xmlns", "w3"), Attr("width", "512"), Attr("height", "512")>>, {})

\* fs.readFile(srcFilePath, 'utf8')
SvgSource(fileName) ==
  CASE fileName = F_a1 ->
         Document(<<SvgRoot,
                    Elem("path", <<Attr("fill", "none"), Attr("stroke", "#000"),
                                   Attr("stroke-width", "32"), Attr("d", "M0")>>, {})>>)
    [] fileName = F_a_b ->
         Document(<<SvgRoot,
                    Elem("style", <<>>, {}),
                    Elem("path", <<Attr("stroke-width", "16"), Attr("fill", "red")>>, {})>>)
    [] fileName = F_a_u_b ->
         Document(<<SvgRoot,
                    Elem("script", <<>>, {}),
                    Elem("circle", <<Attr("stroke", "red")>>, {"dot"})>>)
    [] fileName = F_c -> Malformed
    [] OTHER -> Document(<<SvgRoot, Elem("path", <<Attr("d", "M1")>>, {})>>)

----------------------------------------------------------------------------
(* The Loader.                                                             *)

Path(d, f) == [dir |-> d, file |-> f]

\* a file name that is the same in every build
Fixed(name) == <<name>>

NoContent == [set |-> FALSE, doc |-> Malformed]

Content(d) == [set |-> TRUE, doc |-> d]

\* a script-style wrapper named like the module-style one
fileNameCjsOf_mjs(iconName) == iconName \o <<".", "m", "j", "s">>

fileNameCjsOf(iconName) == iconName \o <<".", "j", "s">>

fileNameMjsOf(iconName) == iconName \o <<".", "m", "j", "s">>

\* a Loader that lets a second period through
tooManyPeriods_lenient(dotSplit) == Len(dotSplit) > 3

\* dotSplit.length > 2
tooManyPeriods(dotSplit) == Len(dotSplit) > 2

\* the callback of svgFiles.map: the record of one file, or the error thrown
SvgDataOf(fileName) ==
  LET dotSplit == split(fileName, {"."})
      iconName == dotSplit[1]
      exportName == camelize(iconName)
  IN IF toLowerCase(fileName) # fileName
     THEN [error |-> "lowercase", data |-> <<>>]
     ELSE IF tooManyPeriods(dotSplit)
     THEN [error |-> "period", data |-> <<>>]
     ELSE IF ~exportName.ok
     THEN [error |-> "TypeError", data |-> <<>>]
     ELSE [error |-> "none",
           data |-> << [fileName |-> fileName,
                        srcFilePath |-> Path("src/svg", fileName),
                        srcSvgContent |-> SvgSource(fileName),
                        optimizedFilePath |-> Path("dist/ionicons/svg", fileName),
                        optimizedSvgContent |-> NoContent,
                        iconName |-> iconName,
                        fileNameMjs |-> fileNameMjsOf(iconName),
                        fileNameCjs |-> fileNameCjsOf(iconName),
                        exportName |-> exportName.val] >>]

\* the filter on readdir's result
svgFilesOf(listing) ==
  SelectSeq(listing, LAMBDA fileName :
              ~startsWith(fileName, <<".">>) /\ endsWith(fileName, SvgExt))

exportNames(svgData) == [i \in 1..Len(svgData) |-> svgData[i].exportName]

iconNames(svgData) == [i \in 1..Len(svgData) |-> svgData[i].iconName]

\* getSvgs: the sorted records, or the first rejection of the Promise.all
getSvgs(listing) ==
  LET svgFiles == svgFilesOf(listing)
      each == [i \in 1..Len(svgFiles) |-> SvgDataOf(svgFiles[i])]
      bad == {i \in 1..Len(each) : each[i].error # "none"}
  IN IF bad # {}
     THEN [error |-> each[CHOOSE i \in bad : \A j \in bad : i <= j].error,
           svgData |-> <<>>]
     ELSE [error |-> "none",
           svgData |-> LET all == [i \in 1..Len(each) |-> each[i].data[1]]
                       IN SortByKey(all, exportNames(all))]

----------------------------------------------------------------------------
(* The Optimizer: the addFillNoneCss plugin and the svgo plugins after it. *)

removeAttr(item, name) ==
  [item EXCEPT !.attrs = SelectSeq(@, LAMBDA a : a.name # name)]

hasAttr(item, name) == \E i \in 1..Len(item.attrs) : item.attrs[i].name = name

classAdd(item, c) == [item EXCEPT !.class = @ \cup {c}]

\* a rewrite that takes every stroke-width for the default one
addFillNoneCssAttr_anyWidth(item, attr) ==
  IF attr.name = "fill"
  THEN removeAttr(IF attr.value = "none"
                  THEN classAdd(item, "ionicon-fill-none") ELSE item, "fill")
  ELSE IF attr.name = "stroke"
  THEN removeAttr(item, "stroke")
  ELSE IF attr.name = "stroke-width"
  THEN classAdd(removeAttr(item, "stroke-width"), "ionicon-stroke-width")
  ELSE item

\* the callback of item.eachAttr
addFillNoneCssAttr(item, attr) ==
  IF attr.name = "fill"
  THEN removeAttr(IF attr.value = "none"
                  THEN classAdd(item, "ionicon-fill-none") ELSE item, "fill")
  ELSE IF attr.name = "stroke"
  THEN removeAttr(item, "stroke")
  ELSE IF attr.name = "stroke-width" /\ attr.value = "32"
  THEN classAdd(removeAttr(item, "stroke-width"), "ionicon-stroke-width")
  ELSE item

\* item.eachAttr(...) over the attributes the element had
addFillNoneCss(item) ==
  LET F[i \in 0..Len(item.attrs)] ==
        IF i = 0 THEN item
        ELSE IF hasAttr(F[i-1], item.attrs[i].name)
             THEN addFillNoneCssAttr(F[i-1], item.attrs[i])
             ELSE F[i-1]
  IN F[Len(item.attrs)]

\* addClassesToSVGElement and removeDimensions act on the root element,
\* removeStyleElement and removeScriptElement drop elements
svgoOptimize(doc) ==
  LET rewritten == [i \in 1..Len(doc.elems) |-> addFillNoneCss(doc.elems[i])]
      rooted == [i \in 1..Len(rewritten) |->
                   IF i = 1 /\ rewritten[i].tag = "svg"
                   THEN removeAttr(removeAttr(classAdd(rewritten[i], "ionicon"),
                                              "width"), "height")
                   ELSE rewritten[i]]
  IN Document(SelectSeq(rooted, LAMBDA e : e.tag \notin {"style", "script"}))

----------------------------------------------------------------------------
(* The catalog builder's reconciliation.                                   *)

NoTags == [has |-> FALSE, list |-> <<>>]

Tags(l) == [has |-> TRUE, list |-> l]

Entry(n, ts) == [name |-> n, tags |-> ts]

JsonFile(icons) == [kind |-> "json", icons |-> icons]

CorruptFile == [kind |-> "corrupt", icons |-> <<>>]

srcDataJsonPath == Path("src", Fixed("data.json"))

distDataJsonPath == Path("dist", Fixed("ionicons.json"))

\* readJson in its try/catch, then data.icons = data.icons || []
readCatalog(files) ==
  IF srcDataJsonPath \in DOMAIN files /\ files[srcDataJsonPath].kind = "json"
  THEN files[srcDataJsonPath].icons
  ELSE <<>>

\* adding without looking for an entry of that name
addNewIcons_dup(icons, svgData) ==
  icons \o [i \in 1..Len(svgData) |-> Entry(svgData[i].iconName, NoTags)]

\* looking for an entry named like the export identifier
addNewIcons_byExportName(icons, svgData) ==
  LET F[i \in 0..Len(svgData)] ==
        IF i = 0 THEN icons
        ELSE IF \E k \in 1..Len(F[i-1]) : F[i-1][k].name = svgData[i].exportName
             THEN F[i-1]
             ELSE Append(F[i-1], Entry(svgData[i].iconName, NoTags))
  IN F[Len(svgData)]

\* add new icons
addNewIcons(icons, svgData) ==
  LET F[i \in 0..Len(svgData)] ==
        IF i = 0 THEN icons
        ELSE IF \E k \in 1..Len(F[i-1]) : F[i-1][k].name = svgData[i].iconName
             THEN F[i-1]
             ELSE Append(F[i-1], Entry(svgData[i].iconName, NoTags))
  IN F[Len(svgData)]

\* a reconciliation that keeps the entries of icons that are gone
removeDeadIcons_keep(icons, svgData) == icons

\* remove dead icons
removeDeadIcons(icons, svgData) ==
  SelectSeq(icons, LAMBDA dataIcon :
              \E i \in 1..Len(svgData) : dataIcon.name = svgData[i].iconName)

entryNames(icons) == [i \in 1..Len(icons) |-> icons[i].name]

\* tags derived from the name on every build
tagsOrSplit_regenerate(icon) == split(icon.name, {"-"})

\* icon.tags = icon.tags || icon.name.split('-')
tagsOrSplit(icon) ==
  IF icon.tags.has THEN icon.tags.list ELSE split(icon.name, {"-"})

\* icon.tags = icon.tags.sort()
sortedTags(icon) ==
  [icon EXCEPT !.tags = Tags(SortByKey(tagsOrSplit(icon), tagsOrSplit(icon)))]

reconcile(icons, svgData) ==
  LET live == removeDeadIcons(addNewIcons(icons, svgData), svgData)
      sorted == SortByKey(live, entryNames(live))
  IN [i \in 1..Len(sorted) |-> sortedTags(sorted[i])]

----------------------------------------------------------------------------
(* What the emitters write.                                                *)

Version == "5.0.0"

esmIndexOf(svgData) ==
  [header |-> "ES Modules", version |-> Version,
   lines |-> [i \in 1..Len(svgData) |->
                [kind |-> "import", exportName |-> svgData[i].exportName,
                 from |-> svgData[i].fileNameMjs]]
             \o [i \in 1..Len(svgData) |->
                [kind |-> "export", exportName |-> svgData[i].exportName,
                 from |-> <<>>]]]

cjsIndexOf(svgData) ==
  [header |-> "CommonJS", version |-> Version,
   lines |-> [i \in 1..Len(svgData) |->
                [exportName |-> svgData[i].exportName,
                 require |-> svgData[i].fileNameCjs]]]

dtsIndexOf(svgData) ==
  [header |-> "Types", version |-> Version,
   lines |-> [i \in 1..Len(svgData) |-> svgData[i].exportName]]

esmImportOf(svgData) ==
  [varName |-> svgData.exportName \o <<"S", "v", "g">>, from |-> svgData.fileName]

cjsImportOf(svgData) == [require |-> svgData.fileName]

iconPkgJson ==
  [name |-> "ionicons/icons", version |-> Version, module |-> "index.mjs",
   main |-> "index.js", typings |-> "index.d.ts"]

distJsonOf(icons) == [name |-> "ionicons", version |-> Version, icons |-> icons]

\* the rewrite of <svg ...> ... </svg> into <symbol id=...> ... </symbol>
symbolOf(svgData) ==
  [id |-> svgData.iconName, body |-> svgData.optimizedSvgContent.doc]

svgSymbolsOf(svgData) ==
  [version |-> Version, symbols |-> [i \in 1..Len(svgData) |-> symbolOf(svgData[i])]]

cheatsheetOf(svgSymbols, svgData) ==
  [version |-> Version, count |-> Len(svgData),
   refs |-> [i \in 1..Len(svgData) |-> svgData[i].iconName],
   sprite |-> svgSymbols]

----------------------------------------------------------------------------
(* The state of one run of build() and of the files it works on.           *)

VARIABLES
  srcDir,             \* what readdir(src/svg) returns
  fs,                 \* the files that exist: path -> content
  pc,                 \* where build() is
  error,              \* what build() rejected with
  srcSvgData,         \* the shared array of SvgData
  inflight,           \* the file operations launched and not completed
  opt,                \* fileName -> where its optimizeSvg call is
  dataPc,             \* where createDataJson is
  data,               \* createDataJson's data.icons
  pkgPc,              \* where createIconPackage is
  esmPc,              \* where createEsmIcons is
  cjsPc,              \* where createCjsIcons is
  esmIndex,           \* createEsmIcons' esmIndex
  cjsIndex,           \* createCjsIcons' cjsIndex
  svgSymbolsContent,  \* what createSvgSymbols returned
  runs,               \* how many times build() was started
  prevOut,            \* the files the previous run left, when it completed
  launched,           \* path -> content of the writes this run launched
  setCount,           \* fileName -> assignments to optimizedSvgContent
  readUnset,          \* a builder read an optimizedSvgContent that was null
  persisted,          \* the icons createDataJson read
  loaderOrder,        \* the file names in the order getSvgs returned them
  orig,               \* the element handed to addFillNoneCss
  item,               \* that element as rewritten so far
  pos                 \* the next attribute eachAttr visits

procVars == <<pc, error, srcSvgData, opt, dataPc, data, pkgPc, esmPc, cjsPc,
              esmIndex, cjsIndex, svgSymbolsContent>>

histVars == <<runs, prevOut, setCount, readUnset, persisted, loaderOrder>>

attrVars == <<orig, item, pos>>

vars == <<srcDir, fs, inflight, launched, procVars, histVars, attrVars>>

EmptyFn == [x \in {} |-> x]

MaxBuilds == 2

\* the catalogs a build may find in src/data.json
PersistedCatalogs ==
  { CorruptFile,
    JsonFile(<< Entry(<<"b">>, Tags(<< <<"x">> >>)),
                Entry(<<"a", "1">>, NoTags) >>),
    JsonFile(<< Entry(<<"a", "1">>, Tags(<< <<"x">>, <<"b">> >>)),
                Entry(<<"a", "-", "b">>, NoTags) >>),
    JsonFile(<< Entry(<<"a", "_", "b">>, NoTags),
                Entry(<<"a", "1">>, Tags(<<>>)) >>),
    JsonFile(<< Entry(<<"a", "1">>, Tags(<< <<"x">> >>)),
                Entry(<<"a", "1">>, NoTags) >>) }

InitialFiles == {EmptyFn} \cup {srcDataJsonPath :> c : c \in PersistedCatalogs}

NoElem == Elem("none", <<>>, {})

ProcInit ==
  /\ pc = "start"
  /\ error = "none"
  /\ srcSvgData = <<>>
  /\ opt = EmptyFn
  /\ dataPc = "idle"
  /\ data = <<>>
  /\ pkgPc = "idle"
  /\ esmPc = "idle"
  /\ cjsPc = "idle"
  /\ esmIndex = esmIndexOf(<<>>)
  /\ cjsIndex = cjsIndexOf(<<>>)
  /\ svgSymbolsContent = svgSymbolsOf(<<>>)

Init ==
  /\ srcDir \in SourceDirs
  /\ fs \in InitialFiles
  /\ inflight = EmptyFn
  /\ launched = EmptyFn
  /\ ProcInit
  /\ runs = 1
  /\ prevOut = [valid |-> FALSE, files |-> EmptyFn]
  /\ setCount = EmptyFn
  /\ readUnset = FALSE
  /\ persisted = <<>>
  /\ loaderOrder = <<>>
  /\ orig = NoElem
  /\ item = NoElem
  /\ pos = 1

----------------------------------------------------------------------------
(* File operations: launched by a task, completed by the file system.      *)

Id(task, fileName) == [task |-> task, file |-> fileName]

Write(path, content) == [kind |-> "write", path |-> path, content |-> content]

EmptyDir(dir) == [kind |-> "emptyDir", path |-> Path(dir, <<>>), content |-> <<>>]

\* the directories emptyDir(dir) empties
DirsUnder(dir) ==
  CASE dir = "dist" -> {"dist", "dist/ionicons", "dist/ionicons/svg"}
    [] dir = "dist/ionicons" -> {"dist/ionicons", "dist/ionicons/svg"}
    [] dir = "icons" -> {"icons", "icons/imports"}
    [] dir = "www" -> {"www", "www/build", "www/build/svg"}
    [] dir = "www/build" -> {"www/build", "www/build/svg"}
    [] OTHER -> {dir}

InFlightOf(tasks) == {id \in DOMAIN inflight : id.task \in tasks}

WritesOf(ops) ==
  LET ids == {id \in DOMAIN ops : ops[id].kind = "write"}
  IN [p \in {ops[id].path : id \in ids} |->
        ops[CHOOSE id \in ids : ops[id].path = p].content]

Launch(ops) ==
  /\ inflight' = ops @@ inflight
  /\ launched' = WritesOf(ops) @@ launched

\* a launched operation takes effect
CompleteOp(id) ==
  /\ id \in DOMAIN inflight
  /\ LET op == inflight[id]
     IN fs' = IF op.kind = "write"
              THEN (op.path :> op.content) @@ fs
              ELSE [p \in {q \in DOMAIN fs : q.dir \notin DirsUnder(op.path.dir)}
                      |-> fs[p]]
  /\ inflight' = [i \in DOMAIN inflight \ {id} |-> inflight[i]]
  /\ UNCHANGED <<srcDir, launched, procVars, histVars, attrVars>>

----------------------------------------------------------------------------
(* build()                                                                 *)

\* Promise.all([emptyDir(iconDir), emptyDir(distDir)])
BuildStart ==
  /\ pc = "start"
  /\ Launch(Id("emptyIconDir", <<>>) :> EmptyDir("icons")
            @@ Id("emptyDistDir", <<>>) :> EmptyDir("dist"))
  /\ pc' = "emptyDirs"
  /\ UNCHANGED <<srcDir, fs, error, srcSvgData, opt, dataPc, data, pkgPc, esmPc,
                 cjsPc, esmIndex, cjsIndex, svgSymbolsContent, histVars, attrVars>>

\* await fs.emptyDir(distIoniconsDir)
EmptyDistIonicons ==
  /\ pc = "emptyDirs"
  /\ InFlightOf({"emptyIconDir", "emptyDistDir"}) = {}
  /\ Launch(Id("emptyDistIoniconsDir", <<>>) :> EmptyDir("dist/ionicons"))
  /\ pc' = "emptyIonicons"
  /\ UNCHANGED <<srcDir, fs, error, srcSvgData, opt, dataPc, data, pkgPc, esmPc,
                 cjsPc, esmIndex, cjsIndex, svgSymbolsContent, histVars, attrVars>>

\* readJson(pkgJsonPath), then getSvgs up to its await fs.emptyDir(optimizedSvgDir)
GetSvgsStart ==
  /\ pc = "emptyIonicons"
  /\ InFlightOf({"emptyDistIoniconsDir"}) = {}
  /\ Launch(Id("getSvgs", <<>>) :> EmptyDir("dist/ionicons/svg"))
  /\ pc' = "getSvgs"
  /\ UNCHANGED <<srcDir, fs, error, srcSvgData, opt, dataPc, data, pkgPc, esmPc,
                 cjsPc, esmIndex, cjsIndex, svgSymbolsContent, histVars, attrVars>>

\* the rest of getSvgs: readdir, the map over the files, the sort
GetSvgsReturn ==
  /\ pc = "getSvgs"
  /\ InFlightOf({"getSvgs"}) = {}
  /\ LET r == getSvgs(srcDir)
     IN /\ error' = r.error
        /\ pc' = IF r.error = "none" THEN "loaded" ELSE "failed"
        /\ srcSvgData' = r.svgData
        /\ loaderOrder' = [i \in 1..Len(r.svgData) |-> r.svgData[i].fileName]
  /\ UNCHANGED <<srcDir, fs, inflight, launched, opt, dataPc, data, pkgPc, esmPc,
                 cjsPc, esmIndex, cjsIndex, svgSymbolsContent, runs, prevOut,
                 setCount, readUnset, persisted, attrVars>>

\* optimizeSvgs: srcSvgData.map(optimizeSvg), each call up to its readFile
OptimizeSvgs ==
  /\ pc = "loaded"
  /\ opt' = [f \in {srcSvgData[i].fileName : i \in 1..Len(srcSvgData)} |-> "read"]
  /\ setCount' = [f \in {srcSvgData[i].fileName : i \in 1..Len(srcSvgData)} |-> 0]
  /\ pc' = "optimize"
  /\ UNCHANGED <<srcDir, fs, inflight, launched, error, srcSvgData, dataPc, data,
                 pkgPc, esmPc, cjsPc, esmIndex, cjsIndex, svgSymbolsContent, runs,
                 prevOut, readUnset, persisted, loaderOrder, attrVars>>

RecordOf(fileName) ==
  CHOOSE i \in 1..Len(srcSvgData) : srcSvgData[i].fileName = fileName

\* optimizeSvg after its readFile: svgo.optimize, the assignment, the writeFile
OptimizeSvg(fileName) ==
  /\ fileName \in DOMAIN opt
  /\ opt[fileName] = "read"
  /\ LET source == SvgSource(fileName)
         i == RecordOf(fileName)
     IN IF source.wellFormed
        THEN /\ srcSvgData' = [srcSvgData EXCEPT ![i].optimizedSvgContent =
                                 Content(svgoOptimize(source))]
             /\ setCount' = [setCount EXCEPT ![fileName] = @ + 1]
             /\ Launch(Id("optimizeSvg", fileName) :>
                         Write(srcSvgData[i].optimizedFilePath, svgoOptimize(source)))
             /\ opt' = [opt EXCEPT ![fileName] = "write"]
        ELSE /\ opt' = [opt EXCEPT ![fileName] = "rejected"]
             /\ UNCHANGED <<srcSvgData, setCount, inflight, launched>>
  /\ UNCHANGED <<srcDir, fs, pc, error, dataPc, data, pkgPc, esmPc, cjsPc, esmIndex,
                 cjsIndex, svgSymbolsContent, runs, prevOut, readUnset, persisted,
                 loaderOrder, attrVars>>

\* the Promise.all of optimizeSvgs rejects with its first rejection
OptimizeSvgsReject ==
  /\ pc = "optimize"
  /\ \E f \in DOMAIN opt : opt[f] = "rejected"
  /\ pc' = "failed"
  /\ error' = "svgo"
  /\ UNCHANGED <<srcDir, fs, inflight, launched, srcSvgData, opt, dataPc, data,
                 pkgPc, esmPc, cjsPc, esmIndex, cjsIndex, svgSymbolsContent,
                 histVars, attrVars>>

\* optimizeSvgs called without await
OptimizeSvgsJoined_noAwait == pc = "optimize"

\* await optimizeSvgs(srcSvgData): every optimizeSvg call has returned
OptimizeSvgsJoined ==
  /\ pc = "optimize"
  /\ \A f \in DOMAIN opt : opt[f] = "write"
  /\ InFlightOf({"optimizeSvg"}) = {}

\* Promise.all([createDataJson(...), createIconPackage(...)]): both are called,
\* createIconPackage up to its await fs.emptyDir(iconImportsDir)
EmitStart ==
  /\ OptimizeSvgsJoined
  /\ pc' = "emit"
  /\ dataPc' = "read"
  /\ pkgPc' = "emptyDir"
  /\ Launch(Id("createIconPackage", <<>>) :> EmptyDir("icons/imports"))
  /\ UNCHANGED <<srcDir, fs, error, srcSvgData, opt, data, esmPc, cjsPc, esmIndex,
                 cjsIndex, svgSymbolsContent, histVars, attrVars>>

----------------------------------------------------------------------------
(* createDataJson                                                          *)

\* readJson, the reconciliation, writeFile(srcDataJsonPath)
CreateDataJson ==
  /\ dataPc = "read"
  /\ persisted' = readCatalog(fs)
  /\ data' = reconcile(readCatalog(fs), srcSvgData)
  /\ Launch(Id("createDataJson", <<>>) :>
              Write(srcDataJsonPath, JsonFile(reconcile(readCatalog(fs), srcSvgData))))
  /\ dataPc' = "writeSrc"
  /\ UNCHANGED <<srcDir, fs, pc, error, srcSvgData, opt, pkgPc, esmPc, cjsPc,
                 esmIndex, cjsIndex, svgSymbolsContent, runs, prevOut, setCount,
                 readUnset, loaderOrder, attrVars>>

\* writeFile(distDataJsonPath)
CreateDataJsonDist ==
  /\ dataPc = "writeSrc"
  /\ InFlightOf({"createDataJson"}) = {}
  /\ Launch(Id("createDataJson", <<>>) :> Write(distDataJsonPath, distJsonOf(data)))
  /\ dataPc' = "writeDist"
  /\ UNCHANGED <<srcDir, fs, pc, error, srcSvgData, opt, data, pkgPc, esmPc, cjsPc,
                 esmIndex, cjsIndex, svgSymbolsContent, histVars, attrVars>>

CreateDataJsonReturned ==
  dataPc = "writeDist" /\ InFlightOf({"createDataJson"}) = {}

----------------------------------------------------------------------------
(* createIconPackage                                                       *)

Records == {srcSvgData[i] : i \in 1..Len(srcSvgData)}

\* after emptyDir(iconImportsDir): createEsmIcons, createCjsIcons and
\* createDtsIcons are called, each up to its first await
CreateIconPackageEmit ==
  /\ pkgPc = "emptyDir"
  /\ InFlightOf({"createIconPackage"}) = {}
  /\ esmIndex' = esmIndexOf(srcSvgData)
  /\ cjsIndex' = cjsIndexOf(srcSvgData)
  /\ Launch([id \in {Id("createEsmIcons", r.fileName) : r \in Records} |->
               LET r == CHOOSE r \in Records : r.fileName = id.file
               IN Write(Path("icons/imports", r.fileNameMjs), esmImportOf(r))]
            @@ [id \in {Id("createCjsIcons", r.fileName) : r \in Records} |->
               LET r == CHOOSE r \in Records : r.fileName = id.file
               IN Write(Path("icons/imports", r.fileNameCjs), cjsImportOf(r))]
            @@ Id("createDtsIcons", <<>>) :>
                 Write(Path("icons", Fixed("index.d.ts")), dtsIndexOf(srcSvgData)))
  /\ pkgPc' = "emit"
  /\ esmPc' = "imports"
  /\ cjsPc' = "imports"
  /\ UNCHANGED <<srcDir, fs, pc, error, srcSvgData, opt, dataPc, data,
                 svgSymbolsContent, histVars, attrVars>>

\* createEsmIcons after its Promise.all: writeFile(iconEsmFilePath)
CreateEsmIndex ==
  /\ esmPc = "imports"
  /\ InFlightOf({"createEsmIcons"}) = {}
  /\ Launch(Id("createEsmIcons", <<>>) :>
              Write(Path("icons", Fixed("index.mjs")), esmIndex))
  /\ esmPc' = "index"
  /\ UNCHANGED <<srcDir, fs, pc, error, srcSvgData, opt, dataPc, data, pkgPc, cjsPc,
                 esmIndex, cjsIndex, svgSymbolsContent, histVars, attrVars>>

\* createCjsIcons after its Promise.all: writeFile(iconCjsFilePath)
CreateCjsIndex ==
  /\ cjsPc = "imports"
  /\ InFlightOf({"createCjsIcons"}) = {}
  /\ Launch(Id("createCjsIcons", <<>>) :>
              Write(Path("icons", Fixed("index.js")), cjsIndex))
  /\ cjsPc' = "index"
  /\ UNCHANGED <<srcDir, fs, pc, error, srcSvgData, opt, dataPc, data, pkgPc, esmPc,
                 esmIndex, cjsIndex, svgSymbolsContent, histVars, attrVars>>

\* createIconPackage after its Promise.all: writeFile(iconPkgJsonFilePath)
CreateIconPackageJson ==
  /\ pkgPc = "emit"
  /\ esmPc = "index"
  /\ cjsPc = "index"
  /\ InFlightOf({"createEsmIcons", "createCjsIcons", "createDtsIcons"}) = {}
  /\ Launch(Id("createIconPackage", <<>>) :>
              Write(Path("icons", Fixed("package.json")), iconPkgJson))
  /\ pkgPc' = "manifest"
  /\ UNCHANGED <<srcDir, fs, pc, error, srcSvgData, opt, dataPc, data, esmPc, cjsPc,
                 esmIndex, cjsIndex, svgSymbolsContent, histVars, attrVars>>

CreateIconPackageReturned ==
  pkgPc = "manifest" /\ InFlightOf({"createIconPackage"}) = {}

----------------------------------------------------------------------------
(* createSvgSymbols, createCheatsheet, copyToTesting                       *)

\* createSvgSymbols started beside the emitters
EmittersJoined_beside == pc = "emit"

\* the await of Promise.all([createDataJson, createIconPackage]) is over
EmittersJoined ==
  /\ pc = "emit"
  /\ CreateDataJsonReturned
  /\ CreateIconPackageReturned

ReadsUnset(svgData) ==
  \E i \in 1..Len(svgData) : ~svgData[i].optimizedSvgContent.set

\* createSvgSymbols: the in-place sort by iconName, then writeFile
CreateSvgSymbols ==
  /\ EmittersJoined
  /\ LET sorted == SortByKey(srcSvgData, iconNames(srcSvgData))
     IN /\ srcSvgData' = sorted
        /\ readUnset' = (readUnset \/ ReadsUnset(sorted))
        /\ svgSymbolsContent' = svgSymbolsOf(sorted)
        /\ Launch(Id("createSvgSymbols", <<>>) :>
                    Write(Path("dist", Fixed("ionicons.symbols.svg")),
                          svgSymbolsOf(sorted)))
  /\ pc' = "symbols"
  /\ UNCHANGED <<srcDir, fs, error, opt, dataPc, data, pkgPc, esmPc, cjsPc,
                 esmIndex, cjsIndex, runs, prevOut, setCount, persisted,
                 loaderOrder, attrVars>>

distCheatsheetFilePath == Path("dist", Fixed("cheatsheet.html"))

\* createCheatsheet: the references, the template, writeFile
CreateCheatsheet ==
  /\ pc = "symbols"
  /\ InFlightOf({"createSvgSymbols"}) = {}
  /\ Launch(Id("createCheatsheet", <<>>) :>
              Write(distCheatsheetFilePath,
                    cheatsheetOf(svgSymbolsContent, srcSvgData)))
  /\ pc' = "cheatsheet"
  /\ UNCHANGED <<srcDir, fs, error, srcSvgData, opt, dataPc, data, pkgPc, esmPc,
                 cjsPc, esmIndex, cjsIndex, svgSymbolsContent, histVars, attrVars>>

\* copyToTesting: ensureDir, then one writeFile per icon
CopyToTesting ==
  /\ pc = "cheatsheet"
  /\ InFlightOf({"createCheatsheet"}) = {}
  /\ readUnset' = (readUnset \/ ReadsUnset(srcSvgData))
  /\ Launch([id \in {Id("copyToTesting", r.fileName) : r \in Records} |->
               LET r == CHOOSE r \in Records : r.fileName = id.file
               IN Write(Path("www/build/svg", r.fileName),
                        r.optimizedSvgContent.doc)])
  /\ pc' = "testing"
  /\ UNCHANGED <<srcDir, fs, error, srcSvgData, opt, dataPc, data, pkgPc, esmPc,
                 cjsPc, esmIndex, cjsIndex, svgSymbolsContent, runs, prevOut,
                 setCount, persisted, loaderOrder, attrVars>>

\* copyToTesting: fs.copyFile(distCheatsheetFilePath, testCheatsheetFilePath)
CopyCheatsheet ==
  /\ pc = "testing"
  /\ InFlightOf({"copyToTesting"}) = {}
  /\ distCheatsheetFilePath \in DOMAIN fs
  /\ Launch(Id("copyFile", <<>>) :>
              Write(Path("www", Fixed("cheatsheet.html")), fs[distCheatsheetFilePath]))
  /\ pc' = "copy"
  /\ UNCHANGED <<srcDir, fs, error, srcSvgData, opt, dataPc, data, pkgPc, esmPc,
                 cjsPc, esmIndex, cjsIndex, svgSymbolsContent, histVars, attrVars>>

\* build() returns
BuildDone ==
  /\ pc = "copy"
  /\ InFlightOf({"copyFile"}) = {}
  /\ pc' = "done"
  /\ UNCHANGED <<srcDir, fs, inflight, launched, error, srcSvgData, opt, dataPc,
                 data, pkgPc, esmPc, cjsPc, esmIndex, cjsIndex, svgSymbolsContent,
                 histVars, attrVars>>

\* the script is run again on the same source directory
Rebuild ==
  /\ pc \in {"done", "failed"}
  /\ runs < MaxBuilds
  /\ runs' = runs + 1
  /\ prevOut' = IF pc = "done" THEN [valid |-> TRUE, files |-> fs]
                ELSE [valid |-> FALSE, files |-> EmptyFn]
  /\ inflight' = EmptyFn
  /\ launched' = EmptyFn
  /\ pc' = "start"
  /\ error' = "none"
  /\ srcSvgData' = <<>>
  /\ opt' = EmptyFn
  /\ dataPc' = "idle"
  /\ data' = <<>>
  /\ pkgPc' = "idle"
  /\ esmPc' = "idle"
  /\ cjsPc' = "idle"
  /\ esmIndex' = esmIndexOf(<<>>)
  /\ cjsIndex' = cjsIndexOf(<<>>)
  /\ svgSymbolsContent' = svgSymbolsOf(<<>>)
  /\ setCount' = EmptyFn
  /\ readUnset' = FALSE
  /\ persisted' = <<>>
  /\ loaderOrder' = <<>>
  /\ UNCHANGED <<srcDir, fs, attrVars>>

TaskIds ==
  {Id(task, f) : task \in {"optimizeSvg", "createEsmIcons", "createCjsIcons",
                           "copyToTesting"},
                 f \in FileNames}
  \cup {Id(task, <<>>) : task \in {"emptyIconDir", "emptyDistDir",
                                   "emptyDistIoniconsDir", "getSvgs",
                                   "createIconPackage", "createDataJson",
                                   "createEsmIcons", "createCjsIcons",
                                   "createDtsIcons", "createSvgSymbols",
                                   "createCheatsheet", "copyFile"}}

Next ==
  \/ BuildStart
  \/ EmptyDistIonicons
  \/ GetSvgsStart
  \/ GetSvgsReturn
  \/ OptimizeSvgs
  \/ \E f \in FileNames : OptimizeSvg(f)
  \/ OptimizeSvgsReject
  \/ EmitStart
  \/ CreateDataJson
  \/ CreateDataJsonDist
  \/ CreateIconPackageEmit
  \/ CreateEsmIndex
  \/ CreateCjsIndex
  \/ CreateIconPackageJson
  \/ CreateSvgSymbols
  \/ CreateCheatsheet
  \/ CopyToTesting
  \/ CopyCheatsheet
  \/ BuildDone
  \/ Rebuild
  \/ \E id \in TaskIds : CompleteOp(id)

Spec == Init /\ [][Next]_vars

----------------------------------------------------------------------------
(* The attribute rewrite on its own: one element, one attribute at a time. *)

MaxAttrs == 3

AttrChoices ==
  {Attr("fill", "none"), Attr("fill", "red"), Attr("stroke", "none"),
   Attr("stroke", "red"), Attr("stroke-width", "32"), Attr("stroke-width", "16"),
   Attr("d", "M0")}

RECURSIVE AttrLists(_)
AttrLists(n) ==
  IF n = 0 THEN {<<>>}
  ELSE LET shorter == AttrLists(n - 1)
       IN shorter \cup
          {Append(l, a) : l \in {k \in shorter : Len(k) = n - 1},
                          a \in AttrChoices}

Elements ==
  {Elem("path", as, cs) :
     as \in {l \in AttrLists(MaxAttrs) :
               \A i, j \in 1..Len(l) : i # j => l[i].name # l[j].name},
     cs \in {{}, {"dot"}, {"ionicon-fill-none"}}}

InitAttr ==
  /\ orig \in Elements
  /\ item = orig
  /\ pos = 1
  /\ srcDir = <<>>
  /\ fs = EmptyFn
  /\ inflight = EmptyFn
  /\ launched = EmptyFn
  /\ ProcInit
  /\ runs = 1
  /\ prevOut = [valid |-> FALSE, files |-> EmptyFn]
  /\ setCount = EmptyFn
  /\ readUnset = FALSE
  /\ persisted = <<>>
  /\ loaderOrder = <<>>

\* eachAttr hands the next attribute the element still has to the callback
VisitAttr ==
  /\ pos <= Len(orig.attrs)
  /\ item' = IF hasAttr(item, orig.attrs[pos].name)
             THEN addFillNoneCssAttr(item, orig.attrs[pos])
             ELSE item
  /\ pos' = pos + 1
  /\ UNCHANGED <<orig, srcDir, fs, inflight, launched, procVars, histVars>>

NextAttr == VisitAttr

SpecAttr == InitAttr /\ [][NextAttr]_vars

----------------------------------------------------------------------------
(* What the properties speak of, stated without the operators above.       *)

\* a file the Loader takes: it ends in .svg and does not begin with a period
Matched(f) ==
  /\ Len(f) >= 4
  /\ f[1] # "."
  /\ f[Len(f) - 3] = "." /\ f[Len(f) - 2] = "s" /\ f[Len(f) - 1] = "v" /\ f[Len(f)] = "g"

MatchedFiles == {srcDir[i] : i \in {k \in 1..Len(srcDir) : Matched(srcDir[k])}}

Periods(f) == Cardinality({i \in 1..Len(f) : f[i] = "."})

AllLowercase(f) == \A i \in 1..Len(f) : ~IsUpper(f[i])

\* the file name minus its extension
IconIdOf(f) == SubSeq(f, 1, Len(f) - 4)

IconIds == {IconIdOf(f) : f \in MatchedFiles}

\* the segments of s between the separators, by the separators' places
SegmentsOn(s, seps) ==
  LET cuts == {0, Len(s) + 1} \cup {i \in 1..Len(s) : s[i] \in seps}
      nth(k) == CHOOSE c \in cuts : Cardinality({d \in cuts : d < c}) = k
  IN [k \in 1..(Cardinality(cuts) - 1) |-> SubSeq(s, nth(k - 1) + 1, nth(k) - 1)]

Occurrences(s, x) == Cardinality({i \in 1..Len(s) : s[i] = x})

Ascending(s) == \A i, j \in 1..Len(s) : i < j => ~StrLess(s[j], s[i])

\* t holds the elements of s, each as often, in lexicographic order
SortedFrom(t, s) ==
  /\ Len(t) = Len(s)
  /\ \A x \in Range(s) \cup Range(t) : Occurrences(t, x) = Occurrences(s, x)
  /\ Ascending(t)

NamesOf(icons) == [i \in 1..Len(icons) |-> icons[i].name]

Written == fs[srcDataJsonPath].icons

BuildCompleted == pc = "done"

----------------------------------------------------------------------------
IdempotentPaths(files) ==
  {p \in DOMAIN files :
     \/ p.dir \in {"icons", "icons/imports"}
     \/ p \in {srcDataJsonPath, distDataJsonPath,
               Path("dist", Fixed("ionicons.symbols.svg"))}}

\* C1: two builds in a row on the same source files leave the same catalog
\* files, sprite document and icon package files: what the second run wrote
\* is what the first run wrote.
C1_Idempotent ==
  (BuildCompleted /\ prevOut.valid) =>
    /\ IdempotentPaths(fs) = IdempotentPaths(prevOut.files)
    /\ \A p \in IdempotentPaths(fs) : fs[p] = prevOut.files[p]

C1_Witness ==
  /\ BuildCompleted
  /\ prevOut.valid
  /\ Len(srcSvgData) = 2
  /\ Len(persisted) = 2
  /\ Cardinality(IdempotentPaths(fs)) >= 11

\* C2: after a completed build the names of the written catalog are the
\* icon identifiers of the current source files, in ascending order, whatever
\* catalog the build found.
C2_CatalogInSync ==
  BuildCompleted =>
    /\ Range(NamesOf(Written)) = IconIds
    /\ Ascending(NamesOf(Written))
    /\ fs[distDataJsonPath].icons = Written

C2_Witness ==
  /\ BuildCompleted
  /\ runs = 1
  /\ \E i \in 1..Len(persisted) : persisted[i].name \notin IconIds
  /\ \E n \in IconIds : n \notin Range(NamesOf(persisted))
  /\ Len(Written) = 2

\* C3 as claimed: after a completed build no two entries of the catalog
\* have the same name, whatever catalog the build read.
C3_NoDuplicateNames ==
  BuildCompleted =>
    \A i, j \in 1..Len(Written) : i # j => Written[i].name # Written[j].name

\* C3 as amended: a build adds no second entry for a name. A name is in the
\* written catalog at most as often as in the catalog read, or once; so a
\* catalog read without duplicates is written without duplicates.
C3_NoNewDuplicates ==
  BuildCompleted =>
    /\ \A n \in Range(NamesOf(Written)) :
         \/ Occurrences(NamesOf(Written), n) = 1
         \/ Occurrences(NamesOf(Written), n) <= Occurrences(NamesOf(persisted), n)
    /\ (\A i, j \in 1..Len(persisted) : i # j => persisted[i].name # persisted[j].name)
         => \A i, j \in 1..Len(Written) : i # j => Written[i].name # Written[j].name

C3_Witness ==
  /\ BuildCompleted
  /\ Len(persisted) = 2
  /\ persisted[1].name # persisted[2].name
  /\ \E i \in 1..2 : persisted[i].name \in IconIds
  /\ \E n \in IconIds : n \notin Range(NamesOf(persisted))
  /\ Len(Written) = 2

TagsExpected(old) ==
  IF old.tags.has THEN old.tags.list ELSE SegmentsOn(old.name, {"-"})

\* C4: an entry whose icon is still there keeps the tags it had, sorted
\* lexicographically; an entry that had no tags gets the hyphen-separated
\* segments of its name, sorted lexicographically. In every build of a
\* sequence.
C4_TagsKept ==
  BuildCompleted =>
    /\ \A k \in 1..Len(Written) :
         LET olds == {i \in 1..Len(persisted) : persisted[i].name = Written[k].name}
         IN /\ Written[k].tags.has
            /\ IF olds = {}
               THEN SortedFrom(Written[k].tags.list,
                               SegmentsOn(Written[k].name, {"-"}))
               ELSE \E i \in olds :
                      SortedFrom(Written[k].tags.list, TagsExpected(persisted[i]))
    /\ \A i \in 1..Len(persisted) :
         persisted[i].name \in IconIds =>
           \E k \in 1..Len(Written) :
             /\ Written[k].name = persisted[i].name
             /\ SortedFrom(Written[k].tags.list, TagsExpected(persisted[i]))

C4_Witness ==
  /\ BuildCompleted
  /\ runs = 2
  /\ prevOut.valid
  /\ \E i \in 1..Len(persisted) :
       /\ persisted[i].tags.has
       /\ Len(persisted[i].tags.list) = 2
       /\ persisted[i].name \in IconIds
  /\ \E k \in 1..Len(Written) :
       /\ Len(SegmentsOn(Written[k].name, {"-"})) = 2
       /\ Written[k].tags.list = SegmentsOn(Written[k].name, {"-"})

HasFileWithPeriods == \E f \in MatchedFiles : Periods(f) > 1

\* C5: when a file the Loader takes has more than one period, the build
\* stops in the Loader and the run writes no file.
C5_AbortsBeforeOutput ==
  HasFileWithPeriods =>
    /\ pc \in {"start", "emptyDirs", "emptyIonicons", "getSvgs", "failed"}
    /\ DOMAIN launched = {}
    /\ \A p \in DOMAIN fs : p = srcDataJsonPath
    /\ pc = "failed" => error \in {"period", "lowercase", "TypeError"}

C5_Witness ==
  /\ HasFileWithPeriods
  /\ pc = "failed"
  /\ error = "period"
  /\ Len(srcDir) = 2

AfterOptimizer ==
  \/ pc \in {"emit", "symbols", "cheatsheet", "testing", "copy", "done"}
  \/ dataPc # "idle"
  \/ pkgPc # "idle"

\* C6: each record's optimized markup is set once, by the Optimizer, and is
\* set for every record before a builder after the Optimizer runs; no
\* builder reads a markup that is not set.
C6_OptimizedBeforeRead ==
  /\ ~readUnset
  /\ \A i \in 1..Len(srcSvgData) :
       LET r == srcSvgData[i]
       IN /\ r.fileName \in DOMAIN setCount =>
               /\ setCount[r.fileName] <= 1
               /\ r.optimizedSvgContent.set <=> setCount[r.fileName] = 1
          /\ r.fileName \notin DOMAIN setCount => ~r.optimizedSvgContent.set
          /\ AfterOptimizer =>
               /\ r.optimizedSvgContent.set
               /\ r.optimizedFilePath \in DOMAIN fs
               /\ fs[r.optimizedFilePath] = r.optimizedSvgContent.doc

C6_Witness ==
  /\ pc = "symbols"
  /\ Len(srcSvgData) = 2
  /\ \A i \in 1..2 : setCount[srcSvgData[i].fileName] = 1

CamelCaseOf(iconId) ==
  LET segs == SegmentsOn(iconId, {"-", "_"})
      up(w) == IF w = <<>> THEN <<>>
               ELSE <<toUpperCaseChar(w[1])>>
                    \o [i \in 1..(Len(w) - 1) |-> toLowerCaseChar(w[i + 1])]
      F[i \in 1..Len(segs)] ==
        IF i = 1 THEN [k \in 1..Len(segs[1]) |-> toLowerCaseChar(segs[1][k])]
        ELSE F[i-1] \o up(segs[i])
  IN F[Len(segs)]

AllWellNamed == \A f \in MatchedFiles : AllLowercase(f) /\ Periods(f) <= 1

\* C7 as claimed: when every file the Loader takes is lowercase with at most
\* one period, the Loader returns one record per such file, ordered by export
\* identifier, with the icon identifier the name minus its extension and the
\* export identifier its camel-case form.
C7_LoaderReturnsEveryFile ==
  (AllWellNamed /\ pc \in {"loaded", "failed"}) =>
    /\ error \in {"none", "svgo"}
    /\ {srcSvgData[i].fileName : i \in 1..Len(srcSvgData)} = MatchedFiles
    /\ Len(srcSvgData) = Cardinality(MatchedFiles)
    /\ \A i \in 1..Len(srcSvgData) :
         /\ srcSvgData[i].iconName = IconIdOf(srcSvgData[i].fileName)
         /\ srcSvgData[i].exportName = CamelCaseOf(srcSvgData[i].iconName)
    /\ Ascending([i \in 1..Len(srcSvgData) |-> srcSvgData[i].exportName])

HadAttr(n, v) == \E i \in 1..Len(orig.attrs) : orig.attrs[i] = Attr(n, v)

RewriteOver == pos > Len(orig.attrs)

\* C8: once eachAttr has visited every attribute: no fill and no stroke
\* attribute is left; ionicon-fill-none was added exactly when fill was none;
\* stroke-width is removed and ionicon-stroke-width added exactly when its
\* value was 32, and any other stroke-width is left as it was; nothing else
\* changes.
C8_AttributeRewrite ==
  RewriteOver =>
    /\ item.tag = orig.tag
    /\ item.attrs = SelectSeq(orig.attrs, LAMBDA a :
                                /\ a.name # "fill"
                                /\ a.name # "stroke"
                                /\ a # Attr("stroke-width", "32"))
    /\ item.class = orig.class
                      \cup (IF HadAttr("fill", "none")
                            THEN {"ionicon-fill-none"} ELSE {})
                      \cup (IF HadAttr("stroke-width", "32")
                            THEN {"ionicon-stroke-width"} ELSE {})

C8_Witness ==
  /\ RewriteOver
  /\ HadAttr("stroke-width", "16")
  /\ HadAttr("fill", "none")
  /\ HadAttr("stroke", "red")
  /\ Attr("stroke-width", "16") \in Range(item.attrs)
  /\ item.class = {"ionicon-fill-none"}

LoaderOrderOf(suffix) ==
  [i \in 1..Len(loaderOrder) |-> IconIdOf(loaderOrder[i]) \o suffix]

EsmImportsOf(index) == SelectSeq(index.lines, LAMBDA l : l.kind = "import")

EsmExportsOf(index) == SelectSeq(index.lines, LAMBDA l : l.kind = "export")

EsmInLoaderOrder(index) ==
  /\ [i \in 1..Len(EsmImportsOf(index)) |-> EsmImportsOf(index)[i].from]
       = LoaderOrderOf(<<".", "m", "j", "s">>)
  /\ [i \in 1..Len(EsmExportsOf(index)) |-> EsmExportsOf(index)[i].exportName]
       = [i \in 1..Len(EsmImportsOf(index)) |-> EsmImportsOf(index)[i].exportName]
  /\ Ascending([i \in 1..Len(EsmImportsOf(index)) |->
                  EsmImportsOf(index)[i].exportName])

CjsInLoaderOrder(index) ==
  /\ [i \in 1..Len(index.lines) |-> index.lines[i].require]
       = LoaderOrderOf(<<".", "j", "s">>)
  /\ Ascending([i \in 1..Len(index.lines) |-> index.lines[i].exportName])

\* C9: the module-style and the script-style index list the icons in the
\* order the Loader returned them, by export identifier, though the sprite
\* builder sorts the same array by icon identifier afterwards; the
\* cheatsheet's references are in the sprite's order, by icon identifier.
C9_IndexAndCheatsheetOrder ==
  /\ pkgPc \in {"emit", "manifest"} =>
       EsmInLoaderOrder(esmIndex) /\ CjsInLoaderOrder(cjsIndex)
  /\ BuildCompleted =>
       /\ EsmInLoaderOrder(fs[Path("icons", Fixed("index.mjs"))])
       /\ CjsInLoaderOrder(fs[Path("icons", Fixed("index.js"))])
       /\ LET sheet == fs[distCheatsheetFilePath]
              sprite == fs[Path("dist", Fixed("ionicons.symbols.svg"))]
          IN /\ sheet.refs = [i \in 1..Len(sprite.symbols) |-> sprite.symbols[i].id]
             /\ Ascending(sheet.refs)
             /\ Range(sheet.refs) = IconIds

C9_Witness ==
  /\ BuildCompleted
  /\ Len(loaderOrder) = 2
  /\ fs[distCheatsheetFilePath].refs
       = <<IconIdOf(loaderOrder[2]), IconIdOf(loaderOrder[1])>>

Overlap(a, b) ==
  IF a.kind = "write" /\ b.kind = "write" THEN a.path = b.path
  ELSE IF a.kind = "emptyDir" /\ b.kind = "emptyDir"
  THEN a.path.dir \in DirsUnder(b.path.dir) \/ b.path.dir \in DirsUnder(a.path.dir)
  ELSE IF a.kind = "emptyDir" THEN b.path.dir \in DirsUnder(a.path.dir)
  ELSE a.path.dir \in DirsUnder(b.path.dir)

\* C10: no two file operations in flight at the same time write or empty
\* the same path, so at the end of a build every file the run wrote holds
\* what its one write was launched with, in every interleaving.
C10_DisjointPaths ==
  /\ \A a, b \in DOMAIN inflight : a # b => ~Overlap(inflight[a], inflight[b])
  /\ BuildCompleted =>
       \A p \in DOMAIN launched : p \in DOMAIN fs /\ fs[p] = launched[p]

C10_Witness ==
  /\ Id("createDataJson", <<>>) \in DOMAIN inflight
  /\ Id("createDtsIcons", <<>>) \in DOMAIN inflight
  /\ Cardinality(InFlightOf({"createEsmIcons"})) = 2
  /\ Cardinality(InFlightOf({"createCjsIcons"})) = 2

====
